---- MODULE Spec2Model ----
(***************************************************************************)
(* Model of md5sum-uring: the three io_uring schedulers                    *)
(* (simple_uring, with_register_files, with_fixed_buffers).  One run of    *)
(* get_checksums is modelled: the probe, the opening/registration phase,   *)
(* the refill loop, submit_wait_and_handle_result and the kernel, which    *)
(* completes submitted reads in any order with any result.                 *)
(***************************************************************************)
EXTENDS Integers, Sequences, FiniteSets, TLC

\* ---------------------------------------------------------------- bounds
\* lib.rs sets RING_SIZE = 16 and MAX_READ_SIZE = 4096 * 16.  The schedulers
\* use the two only through RING_SIZE slots and min(.., MAX_READ_SIZE), so the
\* model keeps the names and scales the values down to 2 slots and chunks of
\* 2 bytes.
RING_SIZE == 2
MAX_READ_SIZE == 2
\* lib.rs sets ALIGNMENT = 4096, which divides MAX_READ_SIZE; scaled to 2
ALIGNMENT == 2
\* longest input path list drawn over every kind of path
MaxFiles == 2
\* how many kernel faults one run may meet: a read completed short or with an
\* error, or a failing submit_and_wait
MaxFaults == 1
\* number of paths of the bounded-concurrency scenario (N = 2, 5 files)
NumScenarioFiles == 5
\* longest input path list of a run that asks for direct I/O
MaxDirectFiles == 1
\* longest input path list of a run of the without_uring fallback
MaxFallbackFiles == 3

VARIABLES
    strategy,         \* which module's get_checksums runs
    o_direct,         \* the o_direct argument: files are opened with O_DIRECT
    paths,            \* input: paths[p] is the length of file p, or Unopenable
    pc,               \* position of get_checksums
    ret,              \* the loop submit_wait_and_handle_result returns to
    probe_count,      \* how many times the probe was registered
    register_count,   \* how many times register_files was called
    files,            \* the iterator over the input paths not yet consumed
    opened,           \* with_register_files / with_fixed_buffers: Vec of opened states
    file_idx,         \* next registered-file index
    raw_fds,          \* descriptors collected for register_files
    registered_files, \* the kernel's registered-file table
    registered_bufs,  \* the kernel's registered-buffer table (buffer ids)
    read_states,      \* slot table: read_states[i] is <<>> or <<state>>
    shared_buffers,   \* with_fixed_buffers: pool idx -> <<>> or <<buffer>>
    free_index_list,
    new_work_queued,
    sq,               \* submission queue: pushed, not yet submitted
    inflight,         \* reads the kernel holds
    cq,               \* completion queue
    tx,               \* the sink: messages sent so far
    open_files,       \* paths whose descriptor is open
    reads,            \* reads[p]: the <<offset, len>> of every read pushed for p
    handled,          \* the last completion handled, with what it fed
    faults,           \* how many more kernel faults the run may meet
    probe,            \* the required operation kinds the probe reported supported
    result,           \* "" while running, then "Ok" or the returned error
    panic             \* "" or the message of the panic that ended the run

vars == <<strategy, o_direct, register_count, paths, pc, ret, probe_count, files, opened, file_idx, raw_fds,
          registered_files, registered_bufs, read_states, shared_buffers,
          free_index_list, new_work_queued, sq, inflight, cq, tx, open_files,
          reads, handled, faults, probe, result, panic>>

\* ------------------------------------------------------------- utilities
Strategies == {"simple_uring", "with_register_files", "with_fixed_buffers"}
OpKinds == {"Read", "RegisterFiles", "ReadFixed"}
Unopenable == -1
Slots == 0 .. (RING_SIZE - 1)
FileLens == {0, MAX_READ_SIZE - 1, MAX_READ_SIZE, MAX_READ_SIZE + 1, 3 * MAX_READ_SIZE}

Min(a, b) == IF a <= b THEN a ELSE b
Last(s) == s[Len(s)]
Front(s) == SubSeq(s, 1, Len(s) - 1)
Zeros(n) == [i \in 1 .. n |-> 0]
Range(s) == {s[i] : i \in 1 .. Len(s)}
Occupied == {i \in Slots : read_states[i] # <<>>}

\* the byte at offset k of file p (every byte of every file is distinct)
FileByte(p, k) == p * 100 + k + 1
\* bytes [off, off + n) of file p
FileBytes(p, off, n) == [i \in 1 .. n |-> FileByte(p, off + i - 1)]
\* the whole contents of file p
Contents(p) == FileBytes(p, 0, paths[p])

\* --------------------------------------------------------------- buffers
\* A buffer is [id, data, len]: a Vec<u8> has Len(data) = len, an AlignedBuffer
\* keeps MAX_READ_SIZE bytes of data and a logical len.
VecNew(id) == [id |-> id, data |-> <<>>, len |-> 0]

\* Vec::resize(n, 0): truncate, or extend with zeros
VecResize(b, n) ==
    IF n <= Len(b.data)
    THEN [b EXCEPT !.data = SubSeq(b.data, 1, n), !.len = n]
    ELSE [b EXCEPT !.data = b.data \o Zeros(n - Len(b.data)), !.len = n]

\* AlignedBuffer::new
AlignedBufferNew(id) == [id |-> id, data |-> Zeros(MAX_READ_SIZE), len |-> MAX_READ_SIZE]

\* the assertion of AlignedBuffer::resize
ResizeFits(n) == n <= MAX_READ_SIZE

\* mutant: resize truncates or extends the bytes like Vec::resize
AlignedResizeLikeVec(b, n) ==
    IF n <= Len(b.data)
    THEN [b EXCEPT !.data = SubSeq(b.data, 1, n), !.len = n]
    ELSE [b EXCEPT !.data = b.data \o Zeros(n - Len(b.data)), !.len = n]

\* AlignedBuffer::resize: only the logical length changes
AlignedResize(b, n) == [b EXCEPT !.len = n]

\* mutant: the whole allocation is fed, not the logical length
BufViewWholeData(b) == b.data

\* Deref of a buffer: the first len bytes
BufView(b) == SubSeq(b.data, 1, b.len)

\* ------------------------------------------------------ per-file state
\* mutant: the cursor is not subtracted from the length
NeededBytesFromStart(file_len, position) == Min(file_len, MAX_READ_SIZE)

\* mutant: the ceiling of a chunk is one byte short
NeededBytesShortOfChunk(file_len, position) ==
    IF file_len - position <= MAX_READ_SIZE - 1 THEN file_len - position
    ELSE MAX_READ_SIZE - 1

\* mutant: a whole chunk is asked for whatever is left of the file
NeededBytesWholeChunk(file_len, position) == MAX_READ_SIZE

\* min(file_len - position, MAX_READ_SIZE)
NeededBytes(file_len, position) == Min(file_len - position, MAX_READ_SIZE)

\* simple_uring Buffer::set_buffer_size
SimpleSetBufferSize(st) ==
    [st EXCEPT !.buf = <<VecResize(st.buf[1], NeededBytes(st.file_len, st.position))>>]

\* simple_uring Buffer::new (the path opens): the descriptor is the path itself
SimpleBufferNew(p) ==
    SimpleSetBufferSize([path |-> p, file_len |-> paths[p], position |-> 0,
                         ctx |-> <<>>, buf |-> <<VecNew(100 + p)>>,
                         file_idx |-> -1, buf_idx |-> -1])

\* with_register_files Buffer::set_buffer_size
RegisteredSetBufferSize(st) ==
    [st EXCEPT !.buf = <<AlignedResize(st.buf[1], NeededBytes(st.file_len, st.position))>>]

\* with_register_files Buffer::new (the path opens)
RegisteredBufferNew(p, idx) ==
    RegisteredSetBufferSize([path |-> p, file_len |-> paths[p], position |-> 0,
                             ctx |-> <<>>, buf |-> <<AlignedBufferNew(100 + p)>>,
                             file_idx |-> idx, buf_idx |-> -1])

\* with_fixed_buffers ReadState::new (the path opens): no buffer yet
ReadStateNew(p, idx) ==
    [path |-> p, file_len |-> paths[p], position |-> 0, ctx |-> <<>>,
     buf |-> <<>>, file_idx |-> idx, buf_idx |-> -1]

\* with_fixed_buffers ReadState::set_buffer_size: the resized buffer
FixedSetBufferSize(b, file_len, position) ==
    AlignedResize(b, NeededBytes(file_len, position))

\* with_fixed_buffers ReadState::initialize: takes the buffer and the index
Initialize(st, b, idx) ==
    [st EXCEPT !.buf_idx = idx,
               !.buf = <<FixedSetBufferSize(b, st.file_len, st.position)>>]

\* with_fixed_buffers ReadState::update: feed the buffer, advance, resize
Update(st) ==
    LET b == st.buf[1]
        position == st.position + b.len
    IN [st EXCEPT !.ctx = st.ctx \o BufView(b),
                  !.position = position,
                  !.buf = <<FixedSetBufferSize(b, st.file_len, position)>>]

\* simple_uring submit_wait_and_handle_result, lines 180-189: advance by the
\* buffer's length, feed the buffer, resize
SimpleConsume(st) ==
    SimpleSetBufferSize([st EXCEPT !.position = st.position + st.buf[1].len,
                                   !.ctx = st.ctx \o BufView(st.buf[1])])

\* with_register_files submit_wait_and_handle_result, lines 197-206
RegisteredConsume(st) ==
    RegisteredSetBufferSize([st EXCEPT !.position = st.position + st.buf[1].len,
                                       !.ctx = st.ctx \o BufView(st.buf[1])])

\* mutant: every read is tagged with index 0
SimpleSqeUntagged(st, idx) ==
    [op |-> "Read", user_data |-> 0, fixed_file |-> FALSE, file |-> st.path,
     ptr |-> st.buf[1].id, len |-> st.buf[1].len, offset |-> st.position, buf_index |-> -1]

\* mutant: the read names the file by its descriptor
RegisteredSqeByDescriptor(st, idx) ==
    [op |-> "Read", user_data |-> idx, fixed_file |-> FALSE, file |-> st.path,
     ptr |-> st.buf[1].id, len |-> st.buf[1].len, offset |-> st.position, buf_index |-> -1]

\* mutant: every fixed read names the buffer registered at index 0
FixedSqeFirstBuffer(st, idx) ==
    [op |-> "ReadFixed", user_data |-> idx, fixed_file |-> TRUE, file |-> st.file_idx,
     ptr |-> st.buf[1].id, len |-> st.buf[1].len, offset |-> st.position,
     buf_index |-> 0]

\* the submission queue entry built by submit_for_read
SimpleSqe(st, idx) ==
    [op |-> "Read", user_data |-> idx, fixed_file |-> FALSE, file |-> st.path,
     ptr |-> st.buf[1].id, len |-> st.buf[1].len, offset |-> st.position, buf_index |-> -1]

RegisteredSqe(st, idx) ==
    [op |-> "Read", user_data |-> idx, fixed_file |-> TRUE, file |-> st.file_idx,
     ptr |-> st.buf[1].id, len |-> st.buf[1].len, offset |-> st.position, buf_index |-> -1]

FixedSqe(st, idx) ==
    [op |-> "ReadFixed", user_data |-> idx, fixed_file |-> TRUE, file |-> st.file_idx,
     ptr |-> st.buf[1].id, len |-> st.buf[1].len, offset |-> st.position,
     buf_index |-> st.buf_idx]

\* mutant: the ring was made with one entry
SqIsFullAtOne == Len(sq) >= 1

\* ring.submission().is_full()
SqIsFull == Len(sq) >= RING_SIZE

\* the messages of the sink
OkMsg(st) == [path |-> st.path, ok |-> TRUE, digest |-> st.ctx]
ErrMsg(p) == [path |-> p, ok |-> FALSE, digest |-> <<>>]

\* File::open or metadata() fails for the path
OpenFails(p) == paths[p] = Unopenable

\* mutant: the index of a path that failed to open is pushed back twice
PushBackTwice(popped, free_idx) == Append(Append(popped, free_idx), free_idx)

\* mutant: the index of a path that failed to open is not pushed back
PushBackForgotten(popped, free_idx) == popped

\* free_index_list.push(free_idx) after a failed Buffer::new
PushBack(popped, free_idx) == Append(popped, free_idx)

\* mutant: the open error is sent twice
SendErrorTwice(path) == Append(Append(tx, ErrMsg(path)), ErrMsg(path))

\* mutant: the open error is swallowed
SendErrorDropped(path) == tx

\* tx.send((path.to_owned(), Err(err)))
SendError(path) == Append(tx, ErrMsg(path))

\* mutant: the result is put in front of the results already sent
SendOkFirst(st) == <<OkMsg(st)>> \o tx

\* tx.send((path, Ok(ctx))) when a file has finished
SendOk(st) == Append(tx, OkMsg(st))

\* mutant: the pool keeps the buffer it hands to a read state
RemoveBufferKept(free_idx) == shared_buffers

\* shared_buffers.remove(&free_idx): the buffer leaves the pool
RemoveBuffer(free_idx) == [shared_buffers EXCEPT ![free_idx] = <<>>]

\* mutant: a buffer shorter than a chunk is taken for the end of the file
FinishedWhenShort(st) == st.buf[1].len < MAX_READ_SIZE

\* buffer.buf.len() == 0 after set_buffer_size: nothing is left to read
Finished(st) == st.buf[1].len = 0

\* mutant: the index next to the finished one is released
ReleaseNeighbour(completed_idx) ==
    Append(free_index_list, (completed_idx + 1) % RING_SIZE)

\* mutant: the index of a finished file is not released
ReleaseForgotten(completed_idx) == free_index_list

\* free_index_list.push(completed_idx) when a file has finished
Release(completed_idx) == Append(free_index_list, completed_idx)

\* mutant: the descriptor of a finished file stays open
CloseFileLeaked(path) == open_files

\* the finished state is dropped at the end of the block: its File closes
CloseFile(path) == open_files \ {path}

\* ------------------------------------------------------------------ Init
\* what the paths that wait for a slot behind the first RING_SIZE are:
\* unopenable, or files of two reads
ScenarioLens == {Unopenable, MAX_READ_SIZE + 1}

\* lists of n paths: the first RING_SIZE of every kind
PathLists(n) ==
    {l \in [1 .. n -> FileLens \cup {Unopenable}] :
        \A k \in 1 .. n : k > RING_SIZE => l[k] \in ScenarioLens}

\* the state at the call of get_checksums, whichever module's it is
CallState(lists, fault_budget) ==
    /\ paths \in lists
    /\ pc = "start"
    /\ ret = "main"
    /\ probe_count = 0
    /\ register_count = 0
    /\ files = [p \in 1 .. Len(paths) |-> p]
    /\ opened = <<>>
    /\ file_idx = 0
    /\ raw_fds = <<>>
    /\ registered_files = <<>>
    /\ registered_bufs = <<>>
    /\ read_states = [i \in Slots |-> <<>>]
    /\ shared_buffers = [i \in Slots |-> <<>>]
    /\ free_index_list = <<>>
    /\ new_work_queued = FALSE
    /\ sq = <<>>
    /\ inflight = {}
    /\ cq = <<>>
    /\ tx = <<>>
    /\ open_files = {}
    /\ reads = [p \in 1 .. Len(paths) |-> <<>>]
    /\ handled = <<>>
    /\ faults = fault_budget
    /\ probe = {}
    /\ result = ""
    /\ panic = ""

InitWith(lists, fault_budget) ==
    /\ strategy \in Strategies
    /\ CallState(lists, fault_budget)

\* every list of at most MaxFiles paths
ShortLists == UNION {PathLists(n) : n \in 0 .. MaxFiles}

\* lists with more paths than slots: unopenable paths and two-read files
LongLists == [1 .. (RING_SIZE + 1) -> ScenarioLens]

\* simple_uring::get_checksums has no o_direct argument; the other two pass
\* theirs to open()
DirectFlags ==
    IF strategy = "simple_uring" \/ Len(paths) > MaxDirectFiles THEN {FALSE} ELSE BOOLEAN

Init ==
    /\ InitWith(ShortLists \cup LongLists, MaxFaults)
    /\ o_direct \in DirectFlags

\* the scenario "N slots and NumScenarioFiles pending files", every read
\* fully satisfied
ScenarioInit ==
    /\ InitWith([1 .. NumScenarioFiles -> ScenarioLens], 0)
    /\ o_direct = FALSE

\* a panic ends the run where it happens
Panic(msg) ==
    /\ pc' = "panicked"
    /\ panic' = msg
    /\ UNCHANGED <<strategy, o_direct, register_count, paths, ret, probe_count, files, opened, file_idx, raw_fds,
                   registered_files, registered_bufs, read_states, shared_buffers,
                   free_index_list, new_work_queued, sq, inflight, cq, tx, open_files,
                   reads, handled, faults, probe, result>>

\* ----------------------------------------------------------------- probe
\* the kinds each get_checksums checks, in the order it checks them
Required(s) ==
    IF s = "simple_uring" THEN <<"Read">>
    ELSE IF s = "with_register_files" THEN <<"Read", "RegisterFiles">>
    ELSE <<"Read", "RegisterFiles", "ReadFixed">>

BailMessage(kind) ==
    IF kind = "Read" THEN "Reading files is not supported. Try a newer kernel."
    ELSE IF kind = "RegisterFiles" THEN "Registering files is not supported. Try a newer kernel."
    ELSE "Reading into fixed buffers is not supported. Try a newer kernel."

\* mutant: only the first required kind is checked
FirstMissingOnlyRead(req, supported) ==
    IF req[1] \notin supported THEN <<req[1]>> ELSE <<>>

\* the first required kind that is not supported, as a sequence of length <= 1
FirstMissing(req, supported) ==
    LET missing == {i \in 1 .. Len(req) : req[i] \notin supported}
    IN IF missing = {} THEN <<>>
       ELSE <<req[CHOOSE i \in missing : \A j \in missing : i <= j]>>

\* get_checksums up to the loop (simple_uring) or up to the opening of the
\* files: the ring, the probe, the bail! checks, the slot table, the free list
\* and, in with_fixed_buffers, the RING_SIZE buffers
Probe ==
    /\ pc = "start"
    /\ \E supported \in SUBSET OpKinds :
         LET missing == FirstMissing(Required(strategy), supported)
         IN /\ probe_count' = probe_count + 1
            /\ probe' = supported \cap Range(Required(strategy))
            /\ IF missing # <<>>
               THEN /\ pc' = "failed"
                    /\ result' = BailMessage(missing[1])
                    /\ UNCHANGED <<free_index_list, shared_buffers>>
               ELSE /\ pc' = IF strategy = "simple_uring" THEN "refill" ELSE "open"
                    /\ result' = ""
                    /\ free_index_list' = [i \in 1 .. RING_SIZE |-> i - 1]
                    /\ shared_buffers' =
                         IF strategy = "with_fixed_buffers"
                         THEN [i \in Slots |-> <<AlignedBufferNew(i)>>]
                         ELSE shared_buffers
    /\ UNCHANGED <<strategy, o_direct, register_count, paths, ret, files, opened, file_idx, raw_fds,
                   registered_files, registered_bufs, read_states, new_work_queued,
                   sq, inflight, cq, tx, open_files, reads, handled, faults, panic>>

\* ------------------------------------------- opening and registering
\* mutant: the opened state is put at the pop() end's other side
CollectInFront(v, state) == <<state>> \o v

\* .rev().collect(): the states come out of the reversed iterator from the
\* last path to the first and are collected in that order
Collect(v, state) == Append(v, state)

\* mutant: the descriptor is put in front of the ones collected so far
RawFdsPushFront(fds, fd) == <<fd>> \o fds

\* raw_fds.push(buffer.fd.as_raw_fd()): the descriptor of the state that was
\* given file_idx goes to the end of the array
RawFdsPush(fds, fd) == Append(fds, fd)

\* mutant: the closure runs on the paths from the front of the list
NextFront(it) == [item |-> Head(it), rest |-> Tail(it)]

\* .rev() on the lazy filter_map: collect() pulls with next_back(), so the
\* closure is given the last path not yet consumed
NextBack(it) == [item |-> Last(it), rest |-> Front(it)]

\* one call of the filter_map closure of with_register_files / with_fixed_buffers.
\* The iterator is reversed before it is collected, so the closure runs on the
\* paths from the back of the list.
OpenNext ==
    /\ pc = "open"
    /\ IF files = <<>>
       THEN /\ pc' = "register"
            /\ UNCHANGED <<files, opened, file_idx, raw_fds, tx, open_files>>
       ELSE LET path == NextBack(files).item
            IN /\ files' = NextBack(files).rest
               /\ pc' = "open"
               /\ IF OpenFails(path)
                  THEN /\ tx' = SendError(path)
                       /\ UNCHANGED <<opened, file_idx, raw_fds, open_files>>
                  ELSE /\ opened' = Collect(opened,
                                       IF strategy = "with_register_files"
                                       THEN RegisteredBufferNew(path, file_idx)
                                       ELSE ReadStateNew(path, file_idx))
                       /\ file_idx' = file_idx + 1
                       /\ raw_fds' = RawFdsPush(raw_fds, path)
                       /\ open_files' = open_files \cup {path}
                       /\ tx' = tx
    /\ UNCHANGED <<strategy, o_direct, register_count, paths, ret, probe_count, registered_files, registered_bufs,
                   read_states, shared_buffers, free_index_list, new_work_queued, sq,
                   inflight, cq, reads, handled, faults, probe, result, panic>>

\* register_files, and in with_fixed_buffers register_buffers.  Only
\* with_fixed_buffers skips the registration when no file opened;
\* with_register_files hands the kernel the empty list, which the kernel may
\* refuse, and the error is returned with `?`.
Register ==
    /\ pc = "register"
    /\ IF strategy = "with_register_files"
       THEN \E accepted \in IF Len(raw_fds) > 0 THEN {TRUE} ELSE BOOLEAN :
              /\ register_count' = register_count + 1
              /\ IF accepted
                 THEN /\ registered_files' = raw_fds
                      /\ pc' = "refill"
                      /\ UNCHANGED <<registered_bufs, result>>
                 ELSE /\ pc' = "failed"
                      /\ result' = "register_files failed"
                      /\ UNCHANGED <<registered_files, registered_bufs>>
       ELSE IF Len(raw_fds) > 0
       THEN /\ register_count' = register_count + 1
            /\ registered_files' = raw_fds
            /\ registered_bufs' = [i \in 1 .. RING_SIZE |-> i - 1]
            /\ pc' = "refill"
            /\ UNCHANGED result
       ELSE /\ pc' = "refill"
            /\ UNCHANGED <<register_count, registered_files, registered_bufs, result>>
    /\ UNCHANGED <<strategy, o_direct, paths, ret, probe_count, files, opened, file_idx, raw_fds,
                   read_states, shared_buffers, free_index_list, new_work_queued, sq,
                   inflight, cq, tx, open_files, reads, handled, faults, probe, panic>>

\* number of empty entries of the slot table `t`
NoneCount(t) == Cardinality({i \in Slots : t[i] = <<>>})

\* read_states.len() of with_fixed_buffers: the number of states in the table
SomeCount(t) == Cardinality({i \in Slots : t[i] # <<>>})

\* mutant: a path that fails to open ends the refill pass
AfterOpenFailureBreak == "decide"

\* `continue` after a failed Buffer::new: the refill loop pops the next index
AfterOpenFailure == "refill"

\* One iteration of `while let Some(free_idx) = free_index_list.pop()` of
\* simple_uring, or the end of that loop when the list is empty.
RefillSimple ==
    /\ strategy = "simple_uring"
    /\ pc = "refill"
    /\ IF free_index_list = <<>>
       THEN /\ pc' = "decide"
            /\ UNCHANGED <<files, read_states, free_index_list, new_work_queued, sq, tx,
                           open_files, reads, panic>>
       ELSE LET free_idx == Last(free_index_list)
                popped == Front(free_index_list)
            IN IF SqIsFull
               THEN Panic("Submission queue must have a free spot if there's a free shared buffer")
               ELSE IF files = <<>>
               THEN \* the index is pushed back, break
                    /\ pc' = "decide"
                    /\ UNCHANGED <<files, read_states, free_index_list, new_work_queued, sq,
                                   tx, open_files, reads, panic>>
               ELSE LET path == Head(files)
                    IN IF OpenFails(path)
                       THEN \* Buffer::new failed: push the index back, send the error
                            /\ free_index_list' = PushBack(popped, free_idx)
                            /\ tx' = SendError(path)
                            /\ files' = Tail(files)
                            /\ pc' = AfterOpenFailure
                            /\ UNCHANGED <<read_states, new_work_queued, sq, open_files,
                                           reads, panic>>
                       ELSE LET buffer == SimpleBufferNew(path)
                                table == [read_states EXCEPT ![free_idx] = <<buffer>>]
                                read_e == SimpleSqe(buffer, free_idx)
                            IN IF Len(popped) # NoneCount(table)
                               THEN Panic("The free index list is out of sync with the work buffers (1)")
                               ELSE IF SqIsFull
                               THEN Panic("submission queue is full")
                               ELSE /\ files' = Tail(files)
                                    /\ free_index_list' = popped
                                    /\ read_states' = table
                                    /\ new_work_queued' = TRUE
                                    /\ sq' = Append(sq, read_e)
                                    /\ open_files' = open_files \cup {path}
                                    /\ reads' = [reads EXCEPT ![path] =
                                                   Append(@, <<read_e.offset, read_e.len>>)]
                                    /\ pc' = "refill"
                                    /\ UNCHANGED <<tx, panic>>
    /\ UNCHANGED <<strategy, o_direct, register_count, paths, ret, probe_count, opened, file_idx, raw_fds,
                   registered_files, registered_bufs, shared_buffers, inflight, cq,
                   handled, faults, probe, result>>

\* The same iteration in with_register_files: the files are already open.
RefillRegistered ==
    /\ strategy = "with_register_files"
    /\ pc = "refill"
    /\ IF free_index_list = <<>>
       THEN /\ pc' = "decide"
            /\ UNCHANGED <<opened, read_states, free_index_list, new_work_queued, sq,
                           reads, panic>>
       ELSE LET free_idx == Last(free_index_list)
                popped == Front(free_index_list)
            IN IF SqIsFull
               THEN Panic("Submission queue must have a free spot if there's a free shared buffer")
               ELSE IF opened = <<>>
               THEN /\ pc' = "decide"
                    /\ UNCHANGED <<opened, read_states, free_index_list, new_work_queued,
                                   sq, reads, panic>>
               ELSE LET buffer == Last(opened)
                        table == [read_states EXCEPT ![free_idx] = <<buffer>>]
                        read_e == RegisteredSqe(buffer, free_idx)
                    IN IF Len(popped) # NoneCount(table)
                       THEN Panic("The free index list is out of sync with the work buffers (1)")
                       ELSE IF SqIsFull
                       THEN Panic("submission queue is full")
                       ELSE /\ opened' = Front(opened)
                            /\ free_index_list' = popped
                            /\ read_states' = table
                            /\ new_work_queued' = TRUE
                            /\ sq' = Append(sq, read_e)
                            /\ reads' = [reads EXCEPT ![buffer.path] =
                                           Append(@, <<read_e.offset, read_e.len>>)]
                            /\ pc' = "refill"
                            /\ UNCHANGED panic
    /\ UNCHANGED <<strategy, o_direct, register_count, paths, ret, probe_count, files, file_idx, raw_fds,
                   registered_files, registered_bufs, shared_buffers, inflight, cq, tx,
                   open_files, handled, faults, probe, result>>

\* The same iteration in with_fixed_buffers: the state takes the buffer of the
\* slot out of the pool.
RefillFixed ==
    /\ strategy = "with_fixed_buffers"
    /\ pc = "refill"
    /\ IF free_index_list = <<>>
       THEN /\ pc' = "decide"
            /\ UNCHANGED <<opened, read_states, shared_buffers, free_index_list,
                           new_work_queued, sq, reads, panic>>
       ELSE LET free_idx == Last(free_index_list)
                popped == Front(free_index_list)
            IN IF SqIsFull
               THEN Panic("Submission queue must have a free spot if there's a free read state slot")
               ELSE IF opened = <<>>
               THEN /\ pc' = "decide"
                    /\ UNCHANGED <<opened, read_states, shared_buffers, free_index_list,
                                   new_work_queued, sq, reads, panic>>
               ELSE IF shared_buffers[free_idx] = <<>>
               THEN Panic("called Option::unwrap() on a None value")
               ELSE IF ~ResizeFits(NeededBytes(Last(opened).file_len, Last(opened).position))
               THEN Panic("Cannot resize buffer")
               ELSE LET state == Initialize(Last(opened), shared_buffers[free_idx][1], free_idx)
                        table == [read_states EXCEPT ![free_idx] = <<state>>]
                        read_e == FixedSqe(state, free_idx)
                    IN IF Len(popped) # RING_SIZE - SomeCount(table)
                       THEN Panic("The free index list is out of sync with the work read states (1)")
                       ELSE IF SqIsFull
                       THEN Panic("submission queue is full")
                       ELSE /\ opened' = Front(opened)
                            /\ shared_buffers' = RemoveBuffer(free_idx)
                            /\ free_index_list' = popped
                            /\ read_states' = table
                            /\ new_work_queued' = TRUE
                            /\ sq' = Append(sq, read_e)
                            /\ reads' = [reads EXCEPT ![state.path] =
                                           Append(@, <<read_e.offset, read_e.len>>)]
                            /\ pc' = "refill"
                            /\ UNCHANGED panic
    /\ UNCHANGED <<strategy, o_direct, register_count, paths, ret, probe_count, files, file_idx, raw_fds,
                   registered_files, registered_bufs, inflight, cq, tx, open_files,
                   handled, faults, probe, result>>

\* mutant: the pending paths are not looked at after the refill
FilesPendingIgnored == FALSE

\* paths still waiting for a slot: files.peek().is_some() / files.len() > 0
FilesPending == IF strategy = "simple_uring" THEN files # <<>> ELSE opened # <<>>

\* After the refill loop: wait for one result, or go and drain what is left.
Decide ==
    /\ pc = "decide"
    /\ IF new_work_queued \/ FilesPending
       THEN IF FilesPending /\ Len(free_index_list) # 0
            THEN Panic("We should have filled all the slots")
            ELSE /\ pc' = "submit"
                 /\ ret' = "main"
                 /\ UNCHANGED <<result, panic>>
       ELSE /\ pc' = "drain"
            /\ UNCHANGED <<ret, result, panic>>
    /\ UNCHANGED <<strategy, o_direct, register_count, paths, probe_count, files, opened, file_idx, raw_fds,
                   registered_files, registered_bufs, read_states, shared_buffers,
                   free_index_list, new_work_queued, sq, inflight, cq, tx, open_files,
                   reads, handled, faults, probe>>

\* mutant: the drain loop is skipped
ActiveLeftNever == FALSE

\* mutant: the drain loop waits once more when every index is free
ActiveLeftOrAllFree == Len(free_index_list) <= RING_SIZE

\* free_index_list.len() < RING_SIZE: a slot is still active
ActiveLeft == Len(free_index_list) < RING_SIZE

\* `while free_index_list.len() < RING_SIZE { ... } break` and `Ok(())`
Drain ==
    /\ pc = "drain"
    /\ IF ActiveLeft
       THEN /\ pc' = "submit"
            /\ ret' = "drain"
            /\ UNCHANGED result
       ELSE /\ pc' = "done"
            /\ result' = "Ok"
            /\ UNCHANGED ret
    /\ UNCHANGED <<strategy, o_direct, register_count, paths, probe_count, files, opened, file_idx, raw_fds,
                   registered_files, registered_bufs, read_states, shared_buffers,
                   free_index_list, new_work_queued, sq, inflight, cq, tx, open_files,
                   reads, handled, faults, probe, panic>>

\* ------------------------------------------------- the ring and the kernel
\* the error of a failed ring.submit_and_wait(1)
RingError == "submit_and_wait failed"

\* mutant: the error of submit_and_wait is dropped and the completion handled
AfterRingErrorHandle == "handle"

\* `?` on ring.submit_and_wait(1), and `?` on submit_wait_and_handle_result in
\* get_checksums: the error is returned at once
AfterRingError == "failed"

\* submit_wait_and_handle_result up to ring.submit_and_wait(1): the debug
\* assertion (2), then every pushed entry goes to the kernel.  The call may
\* fail (a kernel fault of the budget), before or after the kernel took the
\* pushed entries, and the error is returned by get_checksums.
SubmitAndWait ==
    /\ pc = "submit"
    /\ IF Len(free_index_list) # NoneCount(read_states)
       THEN Panic("The free index list is out of sync with the work buffers (2)")
       ELSE /\ \/ /\ inflight' = inflight \cup Range(sq)
                  /\ sq' = <<>>
                  /\ pc' = "handle"
                  /\ UNCHANGED <<faults, result>>
               \/ /\ faults > 0
                  /\ faults' = faults - 1
                  /\ \E taken \in BOOLEAN :
                       IF taken
                       THEN inflight' = inflight \cup Range(sq) /\ sq' = <<>>
                       ELSE UNCHANGED <<inflight, sq>>
                  /\ pc' = AfterRingError
                  /\ result' = RingError
            /\ UNCHANGED <<strategy, o_direct, register_count, paths, ret, probe_count, files, opened, file_idx,
                           raw_fds, registered_files, registered_bufs, read_states,
                           shared_buffers, free_index_list, new_work_queued, cq, tx,
                           open_files, reads, handled, probe, panic>>

\* the file a submitted read names: a descriptor, or an index into the
\* registered-file table (<<>> when the index is not registered)
KernelFile(e) ==
    IF ~e.fixed_file THEN <<e.file>>
    ELSE IF e.file + 1 \in DOMAIN registered_files THEN <<registered_files[e.file + 1]>>
    ELSE <<>>

\* what a fully satisfied read transfers
FullCount(e) ==
    IF KernelFile(e) = <<>> THEN 0
    ELSE LET avail == paths[KernelFile(e)[1]] - e.offset
         IN IF avail < 0 THEN 0 ELSE Min(e.len, avail)

\* whether the kernel can carry the read out at all
KernelAccepts(e) ==
    /\ KernelFile(e) # <<>>
    /\ e.op = "ReadFixed" =>
         /\ e.buf_index + 1 \in DOMAIN registered_bufs
         /\ registered_bufs[e.buf_index + 1] = e.ptr

\* a read of a file opened with O_DIRECT whose offset or length is not a
\* multiple of ALIGNMENT (the buffers of the two strategies are aligned):
\* whether it is carried out or refused depends on the file system
Misaligned(e) ==
    o_direct /\ (e.offset % ALIGNMENT # 0 \/ e.len % ALIGNMENT # 0)

\* the results the kernel may report: the full count, or (a fault) fewer bytes
\* or an error, written -1; a misaligned direct read may be refused
KernelResults(e) ==
    IF ~KernelAccepts(e) THEN {-1}
    ELSE {FullCount(e)}
         \cup (IF faults > 0 THEN (0 .. (FullCount(e) - 1)) \cup {-1} ELSE {})
         \cup (IF Misaligned(e) THEN {-1} ELSE {})

\* the buffer `b` after the kernel wrote `bytes` at its start
Written(b, bytes) ==
    [b EXCEPT !.data = bytes \o SubSeq(b.data, Len(bytes) + 1, Len(b.data))]

\* the slots whose state holds the buffer `id`
HoldersOf(id) ==
    {i \in Slots : /\ read_states[i] # <<>>
                   /\ read_states[i][1].buf # <<>>
                   /\ read_states[i][1].buf[1].id = id}

\* the pool entries that hold the buffer `id`
PooledAt(id) ==
    {i \in Slots : shared_buffers[i] # <<>> /\ shared_buffers[i][1].id = id}

\* The kernel completes one submitted read: it writes the transferred bytes to
\* the memory the read names and posts a completion with the slot's user_data.
KernelComplete ==
    /\ inflight # {}
    /\ pc \notin {"panicked", "undefined"}
    /\ \E e \in inflight : \E res \in KernelResults(e) :
         LET n == IF res < 0 THEN 0 ELSE res
             bytes == IF n = 0 THEN <<>> ELSE FileBytes(KernelFile(e)[1], e.offset, n)
         IN /\ inflight' = inflight \ {e}
            /\ cq' = Append(cq, [user_data |-> e.user_data, res |-> res])
            /\ faults' = IF KernelAccepts(e) /\ res # FullCount(e)
                                           /\ ~(Misaligned(e) /\ res < 0)
                         THEN faults - 1 ELSE faults
            /\ IF n = 0
               THEN UNCHANGED <<read_states, shared_buffers, pc>>
               ELSE IF pc = "failed"
               THEN \* get_checksums has returned and dropped its buffers: a
                    \* write after free
                    /\ pc' = "undefined"
                    /\ UNCHANGED <<read_states, shared_buffers>>
               ELSE IF HoldersOf(e.ptr) # {}
               THEN /\ read_states' =
                         [i \in Slots |->
                            IF i \in HoldersOf(e.ptr)
                            THEN <<[read_states[i][1] EXCEPT
                                      !.buf = <<Written(read_states[i][1].buf[1], bytes)>>]>>
                            ELSE read_states[i]]
                    /\ UNCHANGED <<shared_buffers, pc>>
               ELSE IF PooledAt(e.ptr) # {}
               THEN /\ shared_buffers' =
                         [i \in Slots |->
                            IF i \in PooledAt(e.ptr)
                            THEN <<Written(shared_buffers[i][1], bytes)>>
                            ELSE shared_buffers[i]]
                    /\ UNCHANGED <<read_states, pc>>
               ELSE \* the memory was freed: a write after free
                    /\ pc' = "undefined"
                    /\ UNCHANGED <<read_states, shared_buffers>>
    /\ UNCHANGED <<strategy, o_direct, register_count, paths, ret, probe_count, files, opened, file_idx, raw_fds,
                   registered_files, registered_bufs, free_index_list, new_work_queued,
                   sq, tx, open_files, reads, handled, probe, result, panic>>

\* mutant: every delivered completion is consumed with the first one
CompletionsLeftNone == <<>>

\* ring.completion().next(): the first completion leaves the queue
CompletionsLeft == Tail(cq)

\* where submit_wait_and_handle_result returns to
AfterHandle == IF ret = "main" THEN "refill" ELSE "drain"

\* what a handled completion fed: the ghost record `handled`
HandledRec(cqe, before, after) ==
    <<[path |-> before.path, idx |-> cqe.user_data, res |-> cqe.res,
       requested |-> before.buf[1].len,
       fed |-> Len(after.ctx) - Len(before.ctx),
       advanced |-> after.position - before.position]>>

\* ------------------------------------------------------------ completions
\* simple_uring submit_wait_and_handle_result after the wait: take the first
\* completion, consume the buffer, then finish the file or resubmit.
HandleSimple ==
    /\ strategy = "simple_uring"
    /\ pc = "handle"
    /\ cq # <<>>
    /\ LET completed_idx == Head(cq).user_data
       IN IF read_states[completed_idx] = <<>>
          THEN Panic("should exist because we chose its index")
          ELSE LET before == read_states[completed_idx][1]
                   buffer == SimpleConsume(before)
               IN IF Finished(buffer)
                  THEN LET table == [read_states EXCEPT ![completed_idx] = <<>>]
                           pushed == Release(completed_idx)
                       IN IF Len(pushed) # NoneCount(table)
                          THEN Panic("The free index list is out of sync with the work buffers (3)")
                          ELSE /\ cq' = CompletionsLeft
                               /\ read_states' = table
                               /\ free_index_list' = pushed
                               /\ tx' = SendOk(buffer)
                               /\ open_files' = CloseFile(buffer.path)
                               /\ handled' = HandledRec(Head(cq), before, buffer)
                               /\ pc' = AfterHandle
                               /\ new_work_queued' = FALSE
                               /\ UNCHANGED <<sq, reads, panic>>
                  ELSE LET read_e == SimpleSqe(buffer, completed_idx)
                       IN IF SqIsFull
                          THEN Panic("submission queue is full")
                          ELSE /\ cq' = CompletionsLeft
                               /\ read_states' = [read_states EXCEPT ![completed_idx] = <<buffer>>]
                               /\ sq' = Append(sq, read_e)
                               /\ reads' = [reads EXCEPT ![buffer.path] =
                                              Append(@, <<read_e.offset, read_e.len>>)]
                               /\ handled' = HandledRec(Head(cq), before, buffer)
                               /\ pc' = AfterHandle
                               /\ new_work_queued' = FALSE
                               /\ UNCHANGED <<free_index_list, tx, open_files, panic>>
    /\ UNCHANGED <<strategy, o_direct, register_count, paths, ret, probe_count, files, opened, file_idx, raw_fds,
                   registered_files, registered_bufs, shared_buffers, inflight, faults,
                   probe, result>>

\* with_register_files submit_wait_and_handle_result after the wait
HandleRegistered ==
    /\ strategy = "with_register_files"
    /\ pc = "handle"
    /\ cq # <<>>
    /\ LET completed_idx == Head(cq).user_data
       IN IF read_states[completed_idx] = <<>>
          THEN Panic("should exist because we chose its index")
          ELSE LET before == read_states[completed_idx][1]
                   buffer == RegisteredConsume(before)
               IN IF ~ResizeFits(buffer.buf[1].len)
                  THEN Panic("Cannot resize buffer")
                  ELSE IF Finished(buffer)
                  THEN LET table == [read_states EXCEPT ![completed_idx] = <<>>]
                           pushed == Release(completed_idx)
                       IN IF Len(pushed) # NoneCount(table)
                          THEN Panic("The free index list is out of sync with the work buffers (3)")
                          ELSE /\ cq' = CompletionsLeft
                               /\ read_states' = table
                               /\ free_index_list' = pushed
                               /\ tx' = SendOk(buffer)
                               /\ open_files' = CloseFile(buffer.path)
                               /\ handled' = HandledRec(Head(cq), before, buffer)
                               /\ pc' = AfterHandle
                               /\ new_work_queued' = FALSE
                               /\ UNCHANGED <<sq, reads, panic>>
                  ELSE LET read_e == RegisteredSqe(buffer, completed_idx)
                       IN IF SqIsFull
                          THEN Panic("submission queue is full")
                          ELSE /\ cq' = CompletionsLeft
                               /\ read_states' = [read_states EXCEPT ![completed_idx] = <<buffer>>]
                               /\ sq' = Append(sq, read_e)
                               /\ reads' = [reads EXCEPT ![buffer.path] =
                                              Append(@, <<read_e.offset, read_e.len>>)]
                               /\ handled' = HandledRec(Head(cq), before, buffer)
                               /\ pc' = AfterHandle
                               /\ new_work_queued' = FALSE
                               /\ UNCHANGED <<free_index_list, tx, open_files, panic>>
    /\ UNCHANGED <<strategy, o_direct, register_count, paths, ret, probe_count, files, opened, file_idx, raw_fds,
                   registered_files, registered_bufs, shared_buffers, inflight, faults,
                   probe, result>>

\* with_fixed_buffers submit_wait_and_handle_result after the wait: a finished
\* state gives its buffer back to the pool.
HandleFixed ==
    /\ strategy = "with_fixed_buffers"
    /\ pc = "handle"
    /\ cq # <<>>
    /\ LET completed_idx == Head(cq).user_data
       IN IF read_states[completed_idx] = <<>>
          THEN Panic("should exist because we chose its index")
          ELSE IF read_states[completed_idx][1].buf = <<>>
          THEN Panic("called Option::unwrap() on a None value")
          ELSE LET before == read_states[completed_idx][1]
                   read_state == Update(before)
                   finished == Finished(read_state)
               IN IF ~ResizeFits(read_state.buf[1].len)
                  THEN Panic("Cannot resize buffer")
                  ELSE IF finished
                  THEN LET table == [read_states EXCEPT ![completed_idx] = <<>>]
                           pushed == Release(completed_idx)
                       IN IF Len(pushed) # RING_SIZE - SomeCount(table)
                          THEN Panic("The free index list is out of sync with the read states (3)")
                          ELSE /\ cq' = CompletionsLeft
                               /\ read_states' = table
                               /\ free_index_list' = pushed
                               /\ shared_buffers' =
                                    [shared_buffers EXCEPT ![completed_idx] = read_state.buf]
                               /\ tx' = SendOk(read_state)
                               /\ open_files' = CloseFile(read_state.path)
                               /\ handled' = HandledRec(Head(cq), before, read_state)
                               /\ pc' = AfterHandle
                               /\ new_work_queued' = FALSE
                               /\ UNCHANGED <<sq, reads, panic>>
                  ELSE LET read_e == FixedSqe(read_state, completed_idx)
                       IN IF SqIsFull
                          THEN Panic("submission queue is full")
                          ELSE /\ cq' = CompletionsLeft
                               /\ read_states' =
                                    [read_states EXCEPT ![completed_idx] = <<read_state>>]
                               /\ sq' = Append(sq, read_e)
                               /\ reads' = [reads EXCEPT ![read_state.path] =
                                              Append(@, <<read_e.offset, read_e.len>>)]
                               /\ handled' = HandledRec(Head(cq), before, read_state)
                               /\ pc' = AfterHandle
                               /\ new_work_queued' = FALSE
                               /\ UNCHANGED <<shared_buffers, free_index_list, tx,
                                              open_files, panic>>
    /\ UNCHANGED <<strategy, o_direct, register_count, paths, ret, probe_count, files, opened, file_idx, raw_fds,
                   registered_files, registered_bufs, inflight, faults, probe, result>>

\* ------------------------------------------------------- specifications
Next ==
    \/ Probe
    \/ OpenNext
    \/ Register
    \/ RefillSimple
    \/ RefillRegistered
    \/ RefillFixed
    \/ Decide
    \/ Drain
    \/ SubmitAndWait
    \/ KernelComplete
    \/ HandleSimple
    \/ HandleRegistered
    \/ HandleFixed

Spec == Init /\ [][Next]_vars

\* the scheduler thread keeps running and the kernel completes every read it
\* was given
SchedulerStep ==
    \/ Probe
    \/ OpenNext
    \/ Register
    \/ RefillSimple
    \/ RefillRegistered
    \/ RefillFixed
    \/ Decide
    \/ Drain
    \/ SubmitAndWait
    \/ HandleSimple
    \/ HandleRegistered
    \/ HandleFixed

ScenarioSpec ==
    /\ ScenarioInit
    /\ [][Next]_vars
    /\ WF_vars(SchedulerStep)
    /\ WF_vars(KernelComplete)

\* ------------------------------------------------- without_uring fallback
\* mutant: the message is put in front of the ones already sent
FallbackSendInFront(msg) == <<msg>> \o tx

\* tx.send((path, result)) when the receiver is connected
FallbackSend(msg) == Append(tx, msg)

\* the error of a failed tx.send: the receiver is gone
SendErrorResult == "sending on a closed channel"

\* the closure of without_uring::get_checksums: open, map, one update with the
\* whole map.  `mapped` is whether MmapOptions::map succeeded.
FallbackResult(path, mapped) ==
    IF OpenFails(path) \/ ~mapped
    THEN ErrMsg(path)
    ELSE [path |-> path, ok |-> TRUE, digest |-> Contents(path)]

\* One iteration of `for path in files` of without_uring::get_checksums, or
\* the Ok(()) after the last one.  The file and the map are dropped before the
\* message is sent; a send to a disconnected receiver returns the error.
WithoutUring ==
    /\ strategy = "without_uring"
    /\ pc \in {"start", "for"}
    /\ IF files = <<>>
       THEN /\ pc' = "done"
            /\ result' = "Ok"
            /\ UNCHANGED <<files, tx>>
       ELSE \E mapped \in IF OpenFails(Head(files)) THEN {FALSE} ELSE BOOLEAN :
            \E connected \in BOOLEAN :
              /\ files' = Tail(files)
              /\ IF connected
                 THEN /\ tx' = FallbackSend(FallbackResult(Head(files), mapped))
                      /\ pc' = "for"
                      /\ UNCHANGED result
                 ELSE /\ pc' = "failed"
                      /\ result' = SendErrorResult
                      /\ UNCHANGED tx
    /\ UNCHANGED <<strategy, o_direct, register_count, paths, ret, probe_count, opened, file_idx, raw_fds,
                   registered_files, registered_bufs, read_states, shared_buffers,
                   free_index_list, new_work_queued, sq, inflight, cq, open_files,
                   reads, handled, faults, probe, panic>>

FallbackInit ==
    /\ strategy = "without_uring"
    /\ CallState(UNION {[1 .. n -> FileLens \cup {Unopenable}] : n \in 0 .. MaxFallbackFiles}, 0)
    /\ o_direct \in BOOLEAN

FallbackNext == WithoutUring

FallbackSpec == FallbackInit /\ [][FallbackNext]_vars

\* ================================================================ claims
\* the positions of the sink's messages about path p
MsgsFor(p) == {i \in 1 .. Len(tx) : tx[i].path = p}
Paths == 1 .. Len(paths)
\* reads pushed, submitted or completed and not yet handled
Outstanding == Len(sq) + Cardinality(inflight) + Len(cq)

\* C1: every digest the engine emits for a file is the digest of the bytes
\* [0, total_length) of that file fed in order, in every strategy and for
\* every file length, whatever the order of the completions.
DigestEqualsContents ==
    \A i \in 1 .. Len(tx) : tx[i].ok => tx[i].digest = Contents(tx[i].path)

\* C2: no path ever has two terminal messages, and when get_checksums returns
\* Ok every input path has exactly one (a digest or an error).
ExactlyOneTerminalMessage ==
    /\ \A p \in Paths : Cardinality(MsgsFor(p)) <= 1
    /\ pc = "done" => \A p \in Paths : Cardinality(MsgsFor(p)) = 1

\* a run that returned with a path that failed to open and a file that needed
\* several reads
ReturnedAfterFailureAndSeveralReads ==
    /\ pc = "done"
    /\ Len(tx) = Len(paths)
    /\ \E p \in Paths : OpenFails(p)
    /\ \E p \in Paths : Len(reads[p]) >= 2

\* the panics of the three "out of sync" debug assertions
OutOfSyncPanics ==
    {"The free index list is out of sync with the work buffers (1)",
     "The free index list is out of sync with the work read states (1)",
     "The free index list is out of sync with the work buffers (2)",
     "The free index list is out of sync with the work buffers (3)",
     "The free index list is out of sync with the read states (3)"}

\* C3: the occupied slots never exceed RING_SIZE, the free-index list and the
\* occupied slots add up to RING_SIZE once the list exists, and none of the
\* three "out of sync" debug assertions ever fails.
SlotAccounting ==
    /\ Cardinality(Occupied) <= RING_SIZE
    /\ pc \notin {"start", "failed"} =>
         Len(free_index_list) + Cardinality(Occupied) = RING_SIZE
    /\ panic \notin OutOfSyncPanics

\* assertion (2) is about to be evaluated after an open failure, a finished
\* file and a resubmission, with a slot still occupied
AccountingAfterEveryKindOfStep ==
    /\ pc = "submit"
    /\ Occupied # {}
    /\ \E i \in 1 .. Len(tx) : tx[i].ok
    /\ \E i \in 1 .. Len(tx) : ~tx[i].ok
    /\ \E p \in Paths : Len(reads[p]) >= 2

\* C4 as claimed: in every strategy at most RING_SIZE files are open at once
\* and at most RING_SIZE reads are outstanding at once.
OpenFilesAndReadsBounded ==
    /\ Cardinality(open_files) <= RING_SIZE
    /\ Outstanding <= RING_SIZE

\* C4 as amended: at most RING_SIZE reads are outstanding in every strategy;
\* simple_uring has at most RING_SIZE files open; with_register_files and
\* with_fixed_buffers hold open every path that opened and has not finished,
\* the pending ones included, of which at most RING_SIZE occupy a slot.
ReadsBoundedOpenFilesPerStrategy ==
    /\ Outstanding <= RING_SIZE
    /\ Cardinality(Occupied) <= RING_SIZE
    /\ strategy = "simple_uring" =>
         /\ Cardinality(open_files) <= RING_SIZE
         /\ open_files = {read_states[i][1].path : i \in Occupied}
    /\ strategy # "simple_uring" =>
         open_files = {read_states[i][1].path : i \in Occupied}
                        \cup {opened[k].path : k \in 1 .. Len(opened)}

\* a registered strategy with every slot busy, RING_SIZE reads outstanding and
\* more than RING_SIZE files open
SlotsFullWithMoreFilesOpen ==
    /\ strategy # "simple_uring"
    /\ opened # <<>>
    /\ Cardinality(open_files) > RING_SIZE
    /\ Cardinality(Occupied) = RING_SIZE
    /\ Outstanding = RING_SIZE

\* every path has its message on the sink
AllReported == \A p \in Paths : Cardinality(MsgsFor(p)) = 1

\* get_checksums has returned, with Ok or with an error
Returned == pc \in {"done", "failed"}

FedEqualsTransferred ==
    (handled # <<>> /\ handled[1].res >= 0) =>
        /\ handled[1].fed = handled[1].res
        /\ handled[1].advanced = handled[1].res

\* C7: a read that completes with an error ends only its file: the path has
\* one failure message, its slot is released and nothing of the failed read
\* is fed to a digest.
ReadErrorFailsOnlyThatFile ==
    (handled # <<>> /\ handled[1].res < 0) =>
        /\ handled[1].fed = 0
        /\ read_states[handled[1].idx] = <<>>
        /\ \E i \in MsgsFor(handled[1].path) : ~tx[i].ok
        /\ Cardinality(MsgsFor(handled[1].path)) = 1

\* C8: a path that cannot be opened gets its failure message in the step that
\* tried to open it, with no ring operation involved; the loop goes on (no
\* panic), and when get_checksums returns every unopenable path has one
\* failure message and every other path one success message.
OpenFailureIsolated ==
    /\ [](pc = "done" =>
            \A p \in Paths :
                /\ Cardinality(MsgsFor(p)) = 1
                /\ \A i \in MsgsFor(p) : tx[i].ok = (paths[p] # Unopenable))
    /\ [](pc # "panicked")
    /\ [][(Len(tx') > Len(tx) /\ ~tx'[Len(tx')].ok) =>
            /\ paths[tx'[Len(tx')].path] = Unopenable
            /\ pc \in {"refill", "open"}
            /\ pc' = pc
            /\ <<sq, inflight, cq>>' = <<sq, inflight, cq>>]_vars

\* a run returned with a failure message and a success message on the sink
ReturnedWithFailureAndSuccess ==
    /\ pc = "done"
    /\ \E i \in 1 .. Len(tx) : ~tx[i].ok
    /\ \E i \in 1 .. Len(tx) : tx[i].ok /\ tx[i].digest # <<>>

\* the operation kinds C9 says each strategy requires
ClaimedKinds(s) ==
    IF s = "simple_uring" THEN {"Read"}
    ELSE IF s = "with_register_files" THEN {"Read", "RegisterFiles"}
    ELSE {"Read", "RegisterFiles", "ReadFixed"}

\* C9: the probe runs once; if it reports a required kind unsupported,
\* get_checksums has returned an error and no file was opened, no read was
\* pushed and nothing was sent.
ProbeFailureIsFatalAndEarly ==
    /\ probe_count <= 1
    /\ pc # "start" => probe_count = 1
    /\ (pc # "start" /\ probe # ClaimedKinds(strategy)) =>
         /\ pc = "failed"
         /\ result \in {BailMessage(k) : k \in OpKinds}
         /\ tx = <<>>
         /\ open_files = {}
         /\ Len(files) = Len(paths)
         /\ \A p \in Paths : reads[p] = <<>>
         /\ sq = <<>> /\ inflight = {} /\ cq = <<>>

\* with_fixed_buffers failed on the missing fixed-buffer read, paths given
FixedBufferReadUnsupported ==
    /\ strategy = "with_fixed_buffers"
    /\ pc = "failed"
    /\ probe = {"Read", "RegisterFiles"}
    /\ result = BailMessage("ReadFixed")
    /\ Len(paths) > 0

\* C10 as claimed: no read is ever submitted for a file of length 0.
ZeroLengthNeverRead ==
    \A p \in Paths : paths[p] = 0 => reads[p] = <<>>

\* C10 as amended: a file of length 0 is admitted like any other with exactly
\* one read, of 0 bytes at offset 0; it is finished when that read's
\* completion is handled, and its result is the digest of the empty input.
ZeroLengthOneEmptyRead ==
    \A p \in Paths : paths[p] = 0 =>
        /\ reads[p] \in {<<>>, << <<0, 0>> >>}
        /\ (\E i \in Occupied : read_states[i][1].path = p) => reads[p] = << <<0, 0>> >>
        /\ \A i \in MsgsFor(p) :
             /\ tx[i].ok
             /\ tx[i].digest = <<>>
             /\ reads[p] = << <<0, 0>> >>
             /\ \A k \in Occupied : read_states[k][1].path # p

\* a file of length 0 has its result
ZeroLengthReported ==
    \E p \in Paths : paths[p] = 0 /\ MsgsFor(p) # {}

\* every read not yet handled by the scheduler that was pushed and not completed
Pushed == Range(sq) \cup inflight

\* C11: every read pushed for a slot asks for min(total_length - cursor,
\* MAX_READ_SIZE) bytes of the file in that slot at its cursor, and the cursor
\* plus the requested bytes never passes the total length, so the subtraction
\* total_length - cursor never underflows.
RequestIsRemainingOrChunk ==
    /\ \A p \in Paths : \A k \in 1 .. Len(reads[p]) :
         /\ reads[p][k][1] + reads[p][k][2] <= paths[p]
         /\ reads[p][k][2] = Min(paths[p] - reads[p][k][1], MAX_READ_SIZE)
    /\ \A i \in Occupied :
         LET st == read_states[i][1]
         IN /\ st.file_len = paths[st.path]
            /\ st.position + st.buf[1].len <= st.file_len
            /\ st.buf[1].len = Min(st.file_len - st.position, MAX_READ_SIZE)
    /\ \A e \in Pushed :
         /\ e.user_data \in Occupied
         /\ e.offset = read_states[e.user_data][1].position
         /\ e.len = read_states[e.user_data][1].buf[1].len

\* the last chunk of a file one byte longer than a chunk has been pushed: the
\* rest of the file, less than MAX_READ_SIZE
PartialLastChunkPushed ==
    \E p \in Paths :
        /\ paths[p] = MAX_READ_SIZE + 1
        /\ reads[p] = << <<0, MAX_READ_SIZE>>, <<MAX_READ_SIZE, 1>> >>
        /\ \E e \in Pushed : e.offset = MAX_READ_SIZE /\ e.len = 1

\* the step takes the state of slot i out of the table: the last completion
\* of the file in slot i is handled
FinishesSlot(i) == read_states[i] # <<>> /\ read_states'[i] = <<>>

\* C12: success results go to the sink in the order in which the scheduler
\* handles the files' last completions: the step that handles the last
\* completion of a file appends that file's result after every result
\* already sent, a success result is sent in no other step, and no result
\* already sent changes its place.
EmissionOrderIsCompletionOrder ==
    [][/\ Len(tx') >= Len(tx)
       /\ SubSeq(tx', 1, Len(tx)) = tx
       /\ \A i \in Slots : FinishesSlot(i) =>
            /\ Len(tx') = Len(tx) + 1
            /\ tx'[Len(tx')].ok
            /\ tx'[Len(tx')].path = read_states[i][1].path
            /\ cq # <<>> /\ Head(cq).user_data = i
       /\ (Len(tx') > Len(tx) /\ tx'[Len(tx')].ok) =>
            \E i \in Slots : FinishesSlot(i)]_vars

\* simple_uring sent the result of a later path before the result of an
\* earlier path, both admitted in input order
ResultsOutOfInputOrder ==
    /\ strategy = "simple_uring"
    /\ \E i, j \in 1 .. Len(tx) :
         /\ i < j
         /\ tx[i].ok /\ tx[j].ok
         /\ tx[i].path > tx[j].path

\* the slots that have a completion waiting in the completion queue
Completed == {cq[k].user_data : k \in 1 .. Len(cq)}

\* C13: in with_fixed_buffers, from the push of a read for slot i until its
\* completion is handled, the buffer the read names is held by the read state
\* of slot i and by nothing else (not by the pool, not by another state) and
\* keeps the logical length the read asked for; the pool holds the buffer of
\* slot i only while slot i is empty and no read tagged i is outstanding.
FixedBufferOwnedBySlot ==
    strategy = "with_fixed_buffers" =>
        /\ \A i \in Occupied :
             LET st == read_states[i][1]
             IN /\ st.buf # <<>>
                /\ st.buf_idx = i
                /\ shared_buffers[i] = <<>>
                /\ PooledAt(st.buf[1].id) = {}
                /\ HoldersOf(st.buf[1].id) = {i}
                /\ reads[st.path] # <<>>
                /\ Last(reads[st.path]) = <<st.position, st.buf[1].len>>
        /\ \A e \in Pushed :
             /\ e.user_data \in Occupied
             /\ e.buf_index = e.user_data
             /\ e.ptr = read_states[e.user_data][1].buf[1].id
             /\ e.len = read_states[e.user_data][1].buf[1].len
        /\ Completed \subseteq Occupied
        /\ \A i \in Slots : shared_buffers[i] # <<>> =>
             /\ shared_buffers[i][1].id = i
             /\ read_states[i] = <<>>
             /\ i \notin Completed
             /\ \A e \in Pushed : e.user_data # i
        /\ pc \notin {"start", "failed"} =>
             \A i \in Slots : (shared_buffers[i] = <<>>) = (read_states[i] # <<>>)

\* with_fixed_buffers: a file is at its second read, which the kernel holds,
\* while the buffer of a finished file is back in the pool
FixedBufferInFlightBesidePooled ==
    /\ strategy = "with_fixed_buffers"
    /\ \E i \in Occupied :
         /\ Len(reads[read_states[i][1].path]) >= 2
         /\ \E e \in inflight : e.user_data = i
    /\ \E j \in Slots : shared_buffers[j] # <<>>
    /\ \E k \in 1 .. Len(tx) : tx[k].ok

\* C14: with direct I/O requested, every read the engine pushes has an offset
\* that is a multiple of ALIGNMENT and a length that is a multiple of
\* ALIGNMENT, unless the read is the last chunk of its file (it ends at the
\* total length).
DirectReadsAligned ==
    o_direct =>
        /\ \A p \in Paths : \A k \in 1 .. Len(reads[p]) :
             /\ reads[p][k][1] % ALIGNMENT = 0
             /\ \/ reads[p][k][2] % ALIGNMENT = 0
                \/ reads[p][k][1] + reads[p][k][2] = paths[p]
        /\ \A e \in Pushed :
             /\ e.offset % ALIGNMENT = 0
             /\ e.user_data \in Occupied
             /\ \/ e.len % ALIGNMENT = 0
                \/ e.offset + e.len = read_states[e.user_data][1].file_len
        /\ MAX_READ_SIZE % ALIGNMENT = 0

\* direct I/O: a file one byte longer than a chunk got an aligned first read
\* and a last read whose length is not a multiple of ALIGNMENT
DirectPartialLastChunk ==
    /\ o_direct
    /\ \E p \in Paths :
         /\ paths[p] = MAX_READ_SIZE + 1
         /\ Len(reads[p]) = 2
         /\ reads[p][1][2] % ALIGNMENT = 0
         /\ reads[p][2][1] % ALIGNMENT = 0
         /\ reads[p][2][2] % ALIGNMENT # 0

\* the slots that hold the state of path p
SlotsOf(p) == {i \in Occupied : read_states[i][1].path = p}

\* path p has not been admitted to a slot yet
Waiting(p) ==
    \/ p \in Range(files)
    \/ \E k \in 1 .. Len(opened) : opened[k].path = p

\* the reads tagged i that were pushed and whose completion is not yet handled
OutstandingFor(i) ==
    Cardinality({k \in 1 .. Len(sq) : sq[k].user_data = i})
      + Cardinality({e \in inflight : e.user_data = i})
      + Cardinality({k \in 1 .. Len(cq) : cq[k].user_data = i})

\* C15: a file is Created (waiting, no read), then AwaitingRead (in one slot,
\* one read outstanding), then Finished or Errored (a message on the sink, no
\* slot).  Handling a completion recomputes the next length: the file finishes
\* exactly when it is 0 (its whole length was fed), otherwise one read for the
\* same slot and the new cursor is pushed.  Once a file has its message no
\* read is pushed for it and no completion is routed to it.
ReadStateLifecycle ==
    /\ [](\A p \in Paths :
            /\ Cardinality(SlotsOf(p)) <= 1
            /\ (SlotsOf(p) = {} /\ MsgsFor(p) = {}) => reads[p] = <<>>
            /\ \A i \in SlotsOf(p) :
                 /\ MsgsFor(p) = {}
                 /\ ~Waiting(p)
                 /\ reads[p] # <<>>
                 /\ OutstandingFor(i) = 1
                 /\ read_states[i][1].position < paths[p] \/ paths[p] = 0
            /\ \A m \in MsgsFor(p) :
                 /\ SlotsOf(p) = {}
                 /\ ~Waiting(p)
                 /\ tx[m].ok => Len(tx[m].digest) = paths[p] /\ reads[p] # <<>>
                 /\ ~tx[m].ok => reads[p] = <<>>)
    /\ [](\A i \in Slots : i \notin Occupied => OutstandingFor(i) = 0)
    /\ [][/\ Len(cq') < Len(cq) =>
               LET i == Head(cq).user_data
                   st == read_states[i][1]
               IN IF read_states'[i] = <<>>
                  THEN /\ tx' = Append(tx, [path |-> st.path, ok |-> TRUE,
                                            digest |-> tx'[Len(tx')].digest])
                       /\ st.position + st.buf[1].len = st.file_len
                       /\ sq' = sq
                       /\ reads' = reads
                  ELSE /\ read_states'[i][1].path = st.path
                       /\ read_states'[i][1].position = st.position + st.buf[1].len
                       /\ read_states'[i][1].position < st.file_len
                       /\ read_states'[i][1].buf[1].len > 0
                       /\ Len(sq') = Len(sq) + 1
                       /\ Last(sq').user_data = i
                       /\ Last(sq').offset = read_states'[i][1].position
                       /\ reads' = [reads EXCEPT ![st.path] =
                                      Append(@, <<Last(sq').offset, Last(sq').len>>)]
                       /\ tx' = tx
          /\ \A p \in Paths : MsgsFor(p) # {} => reads'[p] = reads[p]]_vars

\* a file of three chunks went Created, AwaitingRead three times, Finished,
\* beside a path that is Errored
FinishedAfterThreeReads ==
    /\ \E p \in Paths :
         /\ paths[p] = 3 * MAX_READ_SIZE
         /\ Len(reads[p]) = 3
         /\ \E m \in MsgsFor(p) : tx[m].ok
    /\ \E p \in Paths : \E m \in MsgsFor(p) : ~tx[m].ok

\* the file an outstanding read names is the file of the state in its slot
NamesFileOfSlot(e) ==
    LET st == read_states[e.user_data][1]
    IN /\ e.file = IF e.fixed_file THEN st.file_idx ELSE st.path
       /\ e.offset = st.position

\* C16: an index is in the free list only when its slot is empty and no read
\* tagged with it is outstanding (pushed, in the kernel or completed and not
\* yet handled); no index is in the list twice; every outstanding read names
\* the file that is in its slot now, so a newly admitted file never gets a
\* completion of the file that had the slot before.
FreeIndexHasNothingOutstanding ==
    /\ \A k \in 1 .. Len(free_index_list) :
         /\ free_index_list[k] \in Slots
         /\ read_states[free_index_list[k]] = <<>>
         /\ OutstandingFor(free_index_list[k]) = 0
    /\ Cardinality(Range(free_index_list)) = Len(free_index_list)
    /\ \A e \in Pushed : e.user_data \in Occupied /\ NamesFileOfSlot(e)
    /\ Completed \subseteq Occupied

\* all paths open, more paths than slots: the last path is in a slot that an
\* earlier, finished file used, its read outstanding, beside a free index
SlotReusedAfterRelease ==
    /\ Len(paths) > RING_SIZE
    /\ \A p \in Paths : ~OpenFails(p)
    /\ \E i \in Occupied : OutstandingFor(i) = 1
    /\ Cardinality({p \in Paths : MsgsFor(p) # {}}) + Cardinality(Occupied) = Len(paths)
    /\ free_index_list # <<>>

\* C17: every completion in the completion queue carries the index of an
\* occupied slot, and an occupied slot has exactly one outstanding read: the
\* read last pushed for the file in it, at the state's cursor and length, of
\* which a completion reports no more than was asked; an empty slot has none.
\* The lookup "should exist because we chose its index" never fails.
CompletionMatchesOccupiedSlot ==
    /\ panic # "should exist because we chose its index"
    /\ \A i \in Slots : OutstandingFor(i) = IF i \in Occupied THEN 1 ELSE 0
    /\ \A i \in Occupied :
         LET st == read_states[i][1]
         IN /\ reads[st.path] # <<>>
            /\ Last(reads[st.path]) = <<st.position, st.buf[1].len>>
    /\ \A k \in 1 .. Len(cq) :
         /\ cq[k].user_data \in Occupied
         /\ cq[k].res <= read_states[cq[k].user_data][1].buf[1].len
    /\ \A e \in Pushed :
         /\ e.user_data \in Occupied
         /\ <<e.offset, e.len>> = Last(reads[read_states[e.user_data][1].path])

\* the scheduler is about to take the completion of a file's second read
\* while every slot is occupied
CompletionOfSecondReadWaiting ==
    /\ pc = "handle"
    /\ cq # <<>>
    /\ Cardinality(Occupied) = RING_SIZE
    /\ Len(reads[read_states[Head(cq).user_data][1].path]) >= 2

\* C18: whenever the scheduler enters or sits in submit_and_wait(1), a slot is
\* occupied and a read is outstanding: pushed and about to be submitted, in
\* the kernel, or completed and not yet handled.  A refill pass whose paths
\* all failed to open, and an empty path list, lead to no wait.
WaitsOnlyWithReadOutstanding ==
    /\ pc = "submit" => (Occupied # {} /\ Outstanding >= 1)
    /\ pc = "handle" =>
         /\ Occupied # {}
         /\ sq = <<>>
         /\ Cardinality(inflight) + Len(cq) >= 1
    /\ (pc = "done" /\ \A p \in Paths : OpenFails(p)) => handled = <<>>

\* the scheduler is blocked in the wait, its reads in the kernel, after a
\* path failed to open in the refill pass
BlockedAfterOpenFailure ==
    /\ strategy = "simple_uring"
    /\ pc = "handle"
    /\ cq = <<>>
    /\ inflight # {}
    /\ \E m \in 1 .. Len(tx) : ~tx[m].ok

\* C19 as claimed: when the scheduler processes completions it processes
\* every completion the kernel has delivered, so none of them is left when
\* the next reads are pushed and submitted.
DeliveredAllProcessedBeforeNewReads ==
    [][Len(cq') < Len(cq) => cq' = <<>>]_vars

\* C19 as amended: each call of submit_wait_and_handle_result processes
\* exactly one completion, the oldest of the completion queue; the others stay
\* queued, in order, while reads are pushed and submitted, one for each later
\* call; none is left when get_checksums returns, and never more than
\* RING_SIZE reads are outstanding.
OneCompletionPerWait ==
    /\ [][Len(cq') < Len(cq) =>
            /\ pc = "handle"
            /\ cq' = Tail(cq)
            /\ handled' # <<>>
            /\ handled'[1].idx = Head(cq).user_data
            /\ handled'[1].res = Head(cq).res]_vars
    /\ [][pc = "handle" /\ pc' \notin {"handle", "panicked", "undefined"} =>
            Len(cq') = Len(cq) - 1]_vars
    /\ [](pc = "done" => Outstanding = 0)
    /\ [](Outstanding <= RING_SIZE)

\* the call has returned and pushed the next read of its file while the
\* completion of the other slot is still in the completion queue
ReadPushedBesideQueuedCompletion ==
    /\ pc = "refill"
    /\ handled # <<>>
    /\ Cardinality(Occupied) = RING_SIZE
    /\ Len(sq) = 1
    /\ Len(cq) = RING_SIZE - 1
    /\ inflight = {}

\* the paths, or opened states, that wait for a slot
Pending == IF strategy = "simple_uring" THEN files ELSE opened

\* C20: when the refill loop has ended, the free-index list is empty or
\* nothing is pending; if something is pending every slot is occupied, also
\* when paths failed to open during that refill, and the debug assertion
\* "We should have filled all the slots" never fails.
RefillFillsSlotsOrEmptiesPending ==
    /\ pc = "decide" => (free_index_list = <<>> \/ Pending = <<>>)
    /\ (pc = "decide" /\ Pending # <<>>) =>
         /\ Cardinality(Occupied) = RING_SIZE
         /\ \A i \in Slots : OutstandingFor(i) = 1
    /\ panic # "We should have filled all the slots"

\* simple_uring after its first refill: paths failed to open in the pass, every
\* slot is occupied and a path is still pending
RefillEndedFullAfterOpenFailure ==
    /\ strategy = "simple_uring"
    /\ pc = "decide"
    /\ files # <<>>
    /\ free_index_list = <<>>
    /\ tx # <<>>
    /\ \A m \in 1 .. Len(tx) : ~tx[m].ok

\* the step sends messages to the sink
Sends == Len(tx') > Len(tx)

\* C21: in simple_uring, the step in which Buffer::new fails for the next
\* pending path leaves the slot table as it was and the free-index list with
\* the same indices, pushes no read and sends exactly one message, the
\* failure of that path; a path that fails to open never occupies a slot and
\* never has a read.
OpenFailureLeavesSlotsAlone ==
    /\ [][(strategy = "simple_uring" /\ Sends /\ ~tx'[Len(tx')].ok) =>
            /\ files # <<>>
            /\ OpenFails(Head(files))
            /\ files' = Tail(files)
            /\ tx' = Append(tx, [path |-> Head(files), ok |-> FALSE, digest |-> <<>>])
            /\ read_states' = read_states
            /\ Range(free_index_list') = Range(free_index_list)
            /\ Len(free_index_list') = Len(free_index_list)
            /\ <<sq, inflight, cq, reads, open_files>>' = <<sq, inflight, cq, reads, open_files>>]_vars
    /\ [](\A p \in Paths : OpenFails(p) =>
            /\ SlotsOf(p) = {}
            /\ reads[p] = <<>>
            /\ p \notin open_files
            /\ Cardinality(MsgsFor(p)) <= 1
            /\ (strategy = "simple_uring" /\ p \notin Range(files)) =>
                 Cardinality(MsgsFor(p)) = 1)

\* simple_uring has just sent the failure of a path while another file holds
\* a slot and an index is free
FailureSentBesideOccupiedSlot ==
    /\ strategy = "simple_uring"
    /\ pc = "refill"
    /\ tx # <<>>
    /\ ~Last(tx).ok
    /\ Occupied # {}
    /\ free_index_list # <<>>

\* C22: get_checksums returns Ok only when nothing is pending, no slot is
\* occupied, the free-index list holds all RING_SIZE indices and no read is
\* pushed, in the kernel or completed and unhandled.
ReturnsOkOnlyWhenIdle ==
    (pc = "done" \/ result = "Ok") =>
        /\ pc = "done" /\ result = "Ok"
        /\ files = <<>>
        /\ opened = <<>>
        /\ Occupied = {}
        /\ Len(free_index_list) = RING_SIZE
        /\ Range(free_index_list) = Slots
        /\ sq = <<>> /\ inflight = {} /\ cq = <<>>
        /\ open_files = {}

\* get_checksums returned Ok out of the drain loop, which handled the last
\* completions of more than one file
ReturnedOkFromDrain ==
    /\ pc = "done"
    /\ ret = "drain"
    /\ handled # <<>>
    /\ Cardinality({m \in 1 .. Len(tx) : tx[m].ok}) >= 2

\* the reads pushed for path p follow each other without gap from offset 0
Contiguous(p) ==
    /\ reads[p] # <<>> => reads[p][1][1] = 0
    /\ \A k \in 1 .. (Len(reads[p]) - 1) :
         reads[p][k + 1][1] = reads[p][k][1] + reads[p][k][2]

\* the reads of a file are one at a time and at the cursor, which is the
\* number of bytes fed so far
SequentialAtCursor ==
    /\ \A p \in Paths : Contiguous(p)
    /\ \A i \in Occupied :
         LET st == read_states[i][1]
         IN /\ OutstandingFor(i) <= 1
            /\ st.position = Len(st.ctx)
            /\ reads[st.path] # <<>>
            /\ Last(reads[st.path])[1] = st.position

\* C23: the reads of a file are strictly sequential and contiguous, each at
\* the file's cursor, the number of bytes already fed; the cursor never
\* decreases; and the accumulator is fed only the bytes of each read in
\* increasing offset order, so it always holds the bytes [0, cursor).
ReadsSequentialFedInOffsetOrder ==
    /\ [](SequentialAtCursor)
    /\ [](\A i \in Occupied :
            read_states[i][1].ctx =
              FileBytes(read_states[i][1].path, 0, read_states[i][1].position))
    /\ [](\A m \in 1 .. Len(tx) :
            tx[m].ok => tx[m].digest = FileBytes(tx[m].path, 0, Len(tx[m].digest)))
    /\ [][\A i \in Slots :
            (read_states[i] # <<>> /\ read_states'[i] # <<>>
               /\ read_states'[i][1].path = read_states[i][1].path) =>
              read_states'[i][1].position >= read_states[i][1].position]_vars

\* ceil(L / C)
CeilDiv(L, C) == (L + C - 1) \div C

\* the reads C24 expects for a file of length L > 0: ceil(L / MAX_READ_SIZE)
\* reads, each of MAX_READ_SIZE bytes but the last, which takes the rest
ChunkReads(L) ==
    [k \in 1 .. CeilDiv(L, MAX_READ_SIZE) |->
        <<(k - 1) * MAX_READ_SIZE, Min(MAX_READ_SIZE, L - (k - 1) * MAX_READ_SIZE)>>]

\* C24: a file of length L > 0 is read with exactly ceil(L / MAX_READ_SIZE)
\* reads, all of MAX_READ_SIZE bytes but the last, which asks for the rest;
\* no read of 0 bytes follows when the cursor has reached L.  The reads
\* pushed so far are always the first of these, and a finished file has all
\* of them, whether or not the kernel satisfied them fully.
ReadCountIsCeiling ==
    \A p \in Paths : paths[p] > 0 =>
        /\ Len(reads[p]) <= CeilDiv(paths[p], MAX_READ_SIZE)
        /\ reads[p] = SubSeq(ChunkReads(paths[p]), 1, Len(reads[p]))
        /\ \A k \in 1 .. Len(reads[p]) : reads[p][k][2] > 0
        /\ \A m \in MsgsFor(p) : reads[p] = ChunkReads(paths[p])

\* every read was fully satisfied: a file of 3 chunks took three reads and a
\* file one byte longer than a chunk took two, and both digests are right
ThreeChunksAndChunkPlusOneRead ==
    /\ pc = "done"
    /\ faults = MaxFaults
    /\ ~o_direct
    /\ \E p \in Paths :
         /\ paths[p] = 3 * MAX_READ_SIZE
         /\ Len(reads[p]) = 3
    /\ \E p \in Paths :
         /\ paths[p] = MAX_READ_SIZE + 1
         /\ reads[p] = << <<0, MAX_READ_SIZE>>, <<MAX_READ_SIZE, 1>> >>
    /\ \A m \in 1 .. Len(tx) : tx[m].ok /\ tx[m].digest = Contents(tx[m].path)

\* the panics of a full submission queue
QueueFullPanics ==
    {"submission queue is full",
     "Submission queue must have a free spot if there's a free shared buffer",
     "Submission queue must have a free spot if there's a free read state slot"}

\* C25: the reads pushed and not yet completed are never more than the
\* occupied slots, hence never more than RING_SIZE; whenever the refill loop
\* has a free index to pop the submission queue is not full, and no push
\* fails with "submission queue is full".
PushedWithinOccupiedSlots ==
    /\ Len(sq) + Cardinality(inflight) <= Cardinality(Occupied)
    /\ Cardinality(Occupied) <= RING_SIZE
    /\ (pc = "refill" /\ free_index_list # <<>>) =>
         /\ ~SqIsFull
         /\ Len(sq) <= RING_SIZE - Len(free_index_list)
    /\ (pc = "handle" /\ cq # <<>>) => Len(sq) < RING_SIZE
    /\ panic \notin QueueFullPanics

\* the refill loop has pushed a read for every slot: the submission queue
\* holds RING_SIZE reads, none submitted yet
SubmissionQueueHoldsRingSize ==
    /\ pc = "decide"
    /\ Len(sq) = RING_SIZE
    /\ Cardinality(Occupied) = RING_SIZE
    /\ free_index_list = <<>>

\* get_checksums is in its loop or has returned Ok: the registration point
\* is behind
PastRegistration == pc \in {"refill", "decide", "drain", "submit", "handle", "done"}

\* every outstanding read names its file by an index of the registered table
\* that holds the file of its slot
ReadsNameRegisteredFiles ==
    \A e \in Pushed :
        /\ e.fixed_file
        /\ e.file + 1 \in DOMAIN registered_files
        /\ e.user_data \in Occupied
        /\ registered_files[e.file + 1] = read_states[e.user_data][1].path

\* every outstanding read of with_fixed_buffers is a fixed-buffer read of a
\* registered file into a registered buffer
FixedReadsUseRegisteredFiles ==
    strategy = "with_fixed_buffers" =>
        \A e \in Pushed :
            /\ e.op = "ReadFixed"
            /\ e.fixed_file
            /\ e.buf_index + 1 \in DOMAIN registered_bufs
            /\ registered_bufs[e.buf_index + 1] = e.ptr

\* C26 as claimed: in with_register_files and with_fixed_buffers the files
\* (and the RING_SIZE buffers) are registered exactly once, before the first
\* read; every read names its file by registered index, and
\* with_fixed_buffers always uses registered files.
RegisteredExactlyOnceBeforeReads ==
    strategy # "simple_uring" =>
        /\ register_count <= 1
        /\ PastRegistration => register_count = 1
        /\ ~PastRegistration => \A p \in Paths : reads[p] = <<>>
        /\ ReadsNameRegisteredFiles
        /\ FixedReadsUseRegisteredFiles

\* C26 as amended: the registration happens at most once and before the
\* first read: with_register_files registers once, whatever opened;
\* with_fixed_buffers registers files and buffers once if at least one path
\* opened and not at all otherwise.  Every read names its file by registered
\* index, with_fixed_buffers reads registered files into registered buffers,
\* and simple_uring registers nothing.
RegisteredAtMostOnceBeforeReads ==
    /\ register_count <= 1
    /\ pc \in {"start", "open", "register"} =>
         (register_count = 0 /\ \A p \in Paths : reads[p] = <<>>)
    /\ strategy = "simple_uring" =>
         (register_count = 0 /\ \A e \in Pushed : ~e.fixed_file)
    /\ (strategy = "with_register_files" /\ PastRegistration) =>
         (register_count = 1 /\ registered_files = raw_fds)
    /\ (strategy = "with_fixed_buffers" /\ PastRegistration) =>
         /\ register_count = IF raw_fds # <<>> THEN 1 ELSE 0
         /\ registered_files = raw_fds
         /\ Len(registered_bufs) = IF raw_fds # <<>> THEN RING_SIZE ELSE 0
    /\ strategy # "simple_uring" =>
         /\ \A p \in Paths : reads[p] # <<>> => register_count = 1
         /\ ReadsNameRegisteredFiles
         /\ FixedReadsUseRegisteredFiles

\* a registered strategy registered once and the kernel holds a read that
\* names its file by index
RegisteredOnceThenReading ==
    /\ strategy # "simple_uring"
    /\ register_count = 1
    /\ \E e \in inflight : e.fixed_file /\ e.file > 0

\* the buffers of with_fixed_buffers: those in the pool and those held by a
\* read state
FixedBuffers ==
    {shared_buffers[i][1] : i \in {j \in Slots : shared_buffers[j] # <<>>}}
      \cup {read_states[i][1].buf[1] : i \in {j \in Occupied : read_states[j][1].buf # <<>>}}

\* C27: in with_fixed_buffers the logical length of every buffer is at most
\* MAX_READ_SIZE, AlignedBuffer::resize never fails its assertion, and a
\* buffer keeps its MAX_READ_SIZE bytes of capacity and its address (its
\* place in the registered table): only the logical length varies.
FixedBufferLengthWithinCapacity ==
    strategy = "with_fixed_buffers" =>
        /\ panic # "Cannot resize buffer"
        /\ \A b \in FixedBuffers :
             /\ b.len >= 0
             /\ b.len <= MAX_READ_SIZE
             /\ Len(b.data) = MAX_READ_SIZE
             /\ b.id \in Slots
        /\ \A i \in Slots : shared_buffers[i] # <<>> => shared_buffers[i][1].id = i
        /\ \A i \in Occupied :
             read_states[i][1].buf # <<>> => read_states[i][1].buf[1].id = i
        /\ \A i \in Occupied :
             read_states[i][1].buf # <<>> =>
               read_states[i][1].buf[1].len =
                 Min(read_states[i][1].file_len - read_states[i][1].position, MAX_READ_SIZE)

\* with_fixed_buffers: a buffer is resized to the one byte left of its file
\* and another lies in the pool with logical length 0 after its file finished
FixedBufferShrunkAndPooledEmpty ==
    /\ strategy = "with_fixed_buffers"
    /\ \E i \in Occupied : read_states[i][1].buf[1].len = 1 /\ read_states[i][1].position > 0
    /\ \E j \in Slots : shared_buffers[j] # <<>> /\ shared_buffers[j][1].len = 0

\* C28: with_fixed_buffers allocates exactly RING_SIZE buffers, whatever the
\* number of paths, each held once (by the pool or by one read state); the
\* buffer registered at index i is the one slot i uses: a read pushed for
\* slot i carries buffer index i and the address registered at i; and i is a
\* key of the pool exactly when slot i holds no state.
SlotUsesItsRegisteredBuffer ==
    (strategy = "with_fixed_buffers" /\ pc \notin {"start", "failed"}) =>
        /\ {b.id : b \in FixedBuffers} = Slots
        /\ Cardinality({i \in Slots : shared_buffers[i] # <<>>})
             + Cardinality({i \in Occupied : read_states[i][1].buf # <<>>}) = RING_SIZE
        /\ \A k \in 1 .. Len(opened) : opened[k].buf = <<>>
        /\ registered_bufs # <<>> => registered_bufs = [k \in 1 .. RING_SIZE |-> k - 1]
        /\ \A e \in Pushed :
             /\ e.buf_index = e.user_data
             /\ e.buf_index + 1 \in DOMAIN registered_bufs
             /\ e.ptr = registered_bufs[e.buf_index + 1]
             /\ read_states[e.user_data][1].buf_idx = e.user_data
             /\ read_states[e.user_data][1].buf[1].id = e.ptr
        /\ \A i \in Slots : (shared_buffers[i] # <<>>) = (read_states[i] = <<>>)
        /\ \A k \in 1 .. Len(free_index_list) : shared_buffers[free_index_list[k]] # <<>>

\* with_fixed_buffers with more paths than slots: the last path reads into
\* the buffer of a slot that an earlier file gave back
FixedBufferReusedByLaterFile ==
    /\ strategy = "with_fixed_buffers"
    /\ Len(paths) > RING_SIZE
    /\ \A p \in Paths : ~OpenFails(p)
    /\ \E e \in inflight :
         /\ read_states[e.user_data][1].path = Len(paths)
         /\ e.buf_index = e.user_data
    /\ \E m \in 1 .. Len(tx) : tx[m].ok

\* path p has been admitted into a slot: its first read was pushed
Admitted(p) == reads[p] # <<>>

\* C29: pending files are admitted in input order: a path is never admitted
\* before an earlier path of the list that opens; the pending queue is the
\* rest of the input in input order (simple_uring: the paths not yet tried;
\* the registered strategies: the opened states, popped from the end that
\* holds the earliest path).
AdmittedInInputOrder ==
    /\ \A p, q \in Paths :
         (p < q /\ ~OpenFails(p) /\ Admitted(q)) => Admitted(p)
    /\ strategy = "simple_uring" =>
         /\ files = [k \in 1 .. Len(files) |-> Len(paths) - Len(files) + k]
         /\ \A p \in Range(files) : ~Admitted(p) /\ MsgsFor(p) = {}
    /\ (strategy # "simple_uring" /\ PastRegistration) =>
         /\ \A k \in 1 .. (Len(opened) - 1) : opened[k].path > opened[k + 1].path
         /\ {opened[k].path : k \in 1 .. Len(opened)} =
              {p \in Paths : ~OpenFails(p) /\ ~Admitted(p)}

\* a registered strategy with more paths than slots, all opened: the last
\* path of the list has been admitted, after all the others
LastPathAdmittedLast ==
    /\ strategy # "simple_uring"
    /\ Len(paths) > RING_SIZE
    /\ \A p \in Paths : ~OpenFails(p) /\ Admitted(p)
    /\ Len(reads[Len(paths)]) = 1
    /\ sq # <<>>

\* the scheduler is between two passes of its loop, about to submit and wait
\* or returned
AtSubmitOrWait == pc \in {"decide", "drain", "submit", "handle", "done"}

\* C30: the free-index list never holds an index twice; where the scheduler
\* submits or waits an index is in the list exactly when its slot holds no
\* state; no file is bound to two slots at once, and none is bound to a slot
\* once its result has been sent.
FreeListMirrorsEmptySlots ==
    /\ \A j, k \in 1 .. Len(free_index_list) :
         free_index_list[j] = free_index_list[k] => j = k
    /\ Range(free_index_list) \subseteq Slots \ Occupied
    /\ AtSubmitOrWait => Range(free_index_list) = Slots \ Occupied
    /\ \A i, j \in Occupied :
         read_states[i][1].path = read_states[j][1].path => i = j
    /\ \A m \in 1 .. Len(tx) : \A i \in Occupied : read_states[i][1].path # tx[m].path

\* the scheduler waits with one index free and one slot bound to a file, after
\* a result was sent and a path failed to open
WaitingWithOneFreeOneBound ==
    /\ pc = "handle"
    /\ Len(free_index_list) = 1
    /\ Cardinality(Occupied) = RING_SIZE - 1
    /\ \E m \in 1 .. Len(tx) : tx[m].ok
    /\ \E m \in 1 .. Len(tx) : ~tx[m].ok

\* the states of the registered strategies: waiting for a slot, or in one
OpenedStates ==
    Range(opened) \cup {read_states[i][1] : i \in Occupied}

\* C31: in with_register_files and with_fixed_buffers the file index stored
\* in a read state is the position of that file's own descriptor in the array
\* collected for (and then registered with) the kernel, also when paths of the
\* input failed to open and were skipped; no two states share an index; every
\* read pushed for a slot names the index of the slot's state, and the kernel
\* resolves it to that file's descriptor and no other.
FileIndexIsOwnDescriptor ==
    strategy # "simple_uring" =>
        /\ \A st \in OpenedStates :
             /\ st.file_idx + 1 \in DOMAIN raw_fds
             /\ raw_fds[st.file_idx + 1] = st.path
             /\ PastRegistration =>
                  /\ st.file_idx + 1 \in DOMAIN registered_files
                  /\ registered_files[st.file_idx + 1] = st.path
        /\ \A s1, s2 \in OpenedStates : s1.file_idx = s2.file_idx => s1.path = s2.path
        /\ \A e \in Pushed :
             /\ e.user_data \in Occupied
             /\ e.file = read_states[e.user_data][1].file_idx
             /\ KernelFile(e) = <<read_states[e.user_data][1].path>>

\* the first path of the list failed to open and two later ones opened: both
\* have a read with the kernel, and the earlier of them got the higher index
SkippedPathThenTwoRegisteredReads ==
    /\ strategy # "simple_uring"
    /\ Len(paths) = 3
    /\ OpenFails(1) /\ ~OpenFails(2) /\ ~OpenFails(3)
    /\ \E e1, e2 \in inflight :
         /\ KernelFile(e1) = <<2>> /\ e1.file = 1
         /\ KernelFile(e2) = <<3>> /\ e2.file = 0

\* the bytes of file p (every byte of every file is distinct, and none is 0)
OwnBytes(p) == {FileByte(p, k) : k \in 0 .. (paths[p] - 1)}

\* every byte of the sequence s is a byte of file p, or the zero a new buffer
\* is filled with: nothing in s comes from another file
OnlyOwnBytes(p, s) == \A k \in 1 .. Len(s) : s[k] = 0 \/ s[k] \in OwnBytes(p)

\* C32: the digest emitted for a file depends only on that file's own bytes,
\* also when the kernel delivers fewer bytes than requested into a buffer that
\* still holds data of the file that used the slot before.  The bytes of the
\* files are pairwise distinct, so a digest that holds a byte of another file
\* changes when only that other file's contents change: the claim holds
\* exactly when no success digest holds a byte of another file.
DigestDependsOnlyOnOwnBytes ==
    \A m \in 1 .. Len(tx) : tx[m].ok => OnlyOwnBytes(tx[m].path, tx[m].digest)

\* the paths of the input that cannot be opened
UnopenablePaths == {p \in Paths : OpenFails(p)}

\* a read has been pushed for some file
SomeReadPushed == \E p \in Paths : reads[p] # <<>>

\* in the registered strategies every failure message is on the sink before
\* the first read is pushed, and so before every success message
FailuresSentBeforeReads ==
    /\ (SomeReadPushed \/ PastRegistration) =>
         \A p \in UnopenablePaths : Cardinality(MsgsFor(p)) = 1
    /\ pc \in {"start", "open", "register"} => ~SomeReadPushed
    /\ \A m, n \in 1 .. Len(tx) : (~tx[m].ok /\ tx[n].ok) => m < n

\* C33 as claimed: in with_register_files and with_fixed_buffers every path is
\* opened before the scheduler loop starts, so the failure messages of all
\* unopenable paths are on the sink before the first read is submitted and
\* before any success message, in input order among themselves.
OpenFailuresFirstInInputOrder ==
    strategy # "simple_uring" =>
        /\ FailuresSentBeforeReads
        /\ \A m, n \in 1 .. Len(tx) :
             (m < n /\ ~tx[m].ok /\ ~tx[n].ok) => tx[m].path < tx[n].path

\* C33 amended: the same, but the failure messages are in reverse input order
\* among themselves, because the paths are opened from the back of the list.
OpenFailuresFirstInReverseInputOrder ==
    strategy # "simple_uring" =>
        /\ FailuresSentBeforeReads
        /\ \A m, n \in 1 .. Len(tx) :
             (m < n /\ ~tx[m].ok /\ ~tx[n].ok) => tx[m].path > tx[n].path

\* a registered strategy, unopenable paths on both sides of a file: both
\* failures were sent, the later path's first, then the file's digest
TwoFailuresThenSuccess ==
    /\ strategy # "simple_uring"
    /\ Len(paths) = 3
    /\ Len(tx) = 3
    /\ tx[1] = ErrMsg(3)
    /\ tx[2] = ErrMsg(1)
    /\ tx[3].ok /\ tx[3].path = 2

\* path p is in a slot or still waiting for one
InFlightOrPending(p) == SlotsOf(p) # {} \/ Waiting(p)

\* C34: when ring.submit_and_wait fails, get_checksums returns that error at
\* once: the error is raised at the submit-and-wait point without a message,
\* no message is sent on the sink afterwards and nothing of the scheduler
\* moves, and the files that were in a slot or still pending at that moment
\* have no terminal message.
RingFailureReturnsAtOnce ==
    /\ [](result = RingError =>
            /\ pc \in {"failed", "undefined"}
            /\ \A p \in Paths : InFlightOrPending(p) => MsgsFor(p) = {})
    /\ [][(result # RingError /\ result' = RingError) =>
            (pc = "submit" /\ tx' = tx)]_vars
    /\ [][result = RingError =>
            UNCHANGED <<tx, result, files, opened, read_states, free_index_list,
                        sq, reads, handled>>]_vars

\* submit_and_wait failed with every slot bound to a file, reads with the
\* kernel and a path still pending
RingFailedWithFilesInFlightAndPending ==
    /\ result = RingError
    /\ Cardinality(Occupied) = RING_SIZE
    /\ inflight # {}
    /\ Pending # <<>>
    /\ \A p \in Paths : MsgsFor(p) = {}

\* the paths the fallback's loop has taken from its list
Consumed == Len(paths) - Len(files)

\* C35: the fallback processes the paths one after another in input order and
\* sends exactly one message per path in that order: the k-th message is about
\* the k-th path, a failure when the path cannot be opened (or mapped), else
\* the digest of the whole file.  A failure of one file does not stop the
\* loop: the run returns Ok only with a message for every path.  A failed send
\* aborts the run with that error: the message is lost and nothing follows.
FallbackSendsOnePerPathInOrder ==
    /\ \A k \in 1 .. Len(tx) :
         /\ tx[k].path = k
         /\ OpenFails(k) => ~tx[k].ok
         /\ tx[k].ok => tx[k].digest = Contents(k)
    /\ files = [k \in 1 .. Len(files) |-> Consumed + k]
    /\ result \in {"", "Ok", SendErrorResult}
    /\ result # SendErrorResult => Len(tx) = Consumed
    /\ result = "Ok" => (pc = "done" /\ files = <<>> /\ Len(tx) = Len(paths))
    /\ result = SendErrorResult => (pc = "failed" /\ Len(tx) = Consumed - 1)
    /\ pc \in {"failed", "done"} => ~ENABLED FallbackNext
    /\ panic = ""

\* the fallback returned Ok after the first path failed to open, the second
\* could not be mapped and the third was digested
FallbackReturnedAfterTwoFailures ==
    /\ strategy = "without_uring"
    /\ result = "Ok"
    /\ Len(tx) = 3
    /\ OpenFails(1) /\ ~tx[1].ok
    /\ ~OpenFails(2) /\ ~tx[2].ok
    /\ tx[3].ok /\ tx[3].digest # <<>>

====
